---- MODULE Spec2Model ----
(***************************************************************************)
(* Model of the xai HTTP function (xai/index.js): the request handler run  *)
(* and the page loop callXAI with its helpers.                             *)
(*                                                                         *)
(* JavaScript values are tagged records: undefined, number (a rational     *)
(* num/den), string and array.  A string is a sequence of tokens, each     *)
(* token standing for a run of characters; "" is the empty sequence.       *)
(***************************************************************************)
EXTENDS Integers, Sequences, FiniteSets, TLC

(* ------------------------------ bounds -------------------------------- *)
\* largest valid maxImports a request of the model asks for
MaxReq == 2
\* fragments the completion provider returns in one invocation, over all pages
MaxFragments == 2

\* outbound calls of one invocation, to the geocoding provider or to the
\* document store, that fail or find nothing
MaxFaults == 1

(* ------------------------- program constants -------------------------- *)
\* requestSchema: maxImports: z.number().int().min(1).max(50)
MinImports == 1
MaxImports == 50
\* requestSchema: .default(1)
DefaultImports == 1
\* clampTimeout: DEFAULT, MAX and MIN, in milliseconds
DEFAULT == 300000
MAX == 3600000
MIN == 10000
\* the timeout read when XAI_TIMEOUT_MS is not set
FallbackTimeout == 600000

(* ----------------------------- JS values ------------------------------ *)
U == [t |-> "undefined"]
N(n) == [t |-> "number", num |-> n, den |-> 1]
Q(n, d) == [t |-> "number", num |-> n, den |-> d]
S(s) == [t |-> "string", s |-> s]
A(a) == [t |-> "array", a |-> a]

IsString(v) == v.t = "string"
IsNumber(v) == v.t = "number"
IsArray(v) == v.t = "array"

\* JavaScript truthiness of a value
Truthy(v) ==
  CASE v.t = "undefined" -> FALSE
    [] v.t = "number" -> v.num # 0
    [] v.t = "string" -> v.s # <<>>
    [] OTHER -> TRUE

\* a || b
Or(a, b) == IF Truthy(a) THEN a ELSE b

\* a ?? b, for values that are never null
Nullish(a, b) == IF a = U THEN b ELSE a

\* the numbers that are not finite have denominator 0
NaN == [t |-> "number", num |-> 0, den |-> 0]
Infinity == [t |-> "number", num |-> 1, den |-> 0]

\* Number.isFinite(v)
IsFinite(v) == IsNumber(v) /\ v.den # 0

\* a <= b for finite numbers with positive denominators
Leq(a, b) == a.num * b.den <= b.num * a.den

\* Math.max and Math.min of two finite numbers
MathMax(a, b) == IF Leq(a, b) THEN b ELSE a
MathMin(a, b) == IF Leq(a, b) THEN a ELSE b

(* ------------------------------ strings ------------------------------- *)
SP == " "

RECURSIVE TrimLeft(_)
TrimLeft(s) == IF s # <<>> /\ Head(s) = SP THEN TrimLeft(Tail(s)) ELSE s

RECURSIVE TrimRight(_)
TrimRight(s) ==
  IF s # <<>> /\ s[Len(s)] = SP THEN TrimRight(SubSeq(s, 1, Len(s) - 1)) ELSE s

\* String.prototype.trim
Trim(s) == TrimRight(TrimLeft(s))

\* String(v) for the values the model passes to it
String(v) ==
  CASE v.t = "string" -> v.s
    [] v.t = "undefined" -> <<"undefined">>
    [] v.t = "number" -> <<"#">>
    [] OTHER -> <<"[array]">>

\* Number(text) for a text of one token
NumberOfToken(tok) ==
  CASE tok = "5000" -> N(5000)
    [] tok = "7200000" -> N(7200000)
    [] tok = "-1" -> N(0 - 1)
    [] tok = "1800000.5" -> Q(3600001, 2)
    [] tok = "Infinity" -> Infinity
    [] OTHER -> NaN

\* Number(v)
Number(v) ==
  CASE v.t = "number" -> v
    [] v.t = "string" ->
         IF Trim(v.s) = <<>> THEN N(0)
         ELSE IF Len(Trim(v.s)) = 1 THEN NumberOfToken(Trim(v.s)[1])
         ELSE NaN
    [] OTHER -> NaN

Schemes == {"https://", "http://"}
\* tokens, other than the schemes, whose text starts with the letters http
HttpWords == {"httpbin.org"}
HostTokens ==
  {"acme.com", "ACME.COM", "bolt.io", "httpbin.org", "amazon.com",
   "notamazon.example"}
PathTokens == {"/about", "/dp/B01"}

\* s.startsWith("http")
StartsWithHttp(s) == s # <<>> /\ Head(s) \in Schemes \cup HttpWords

\* lower-casing of one token
Lower(tok) ==
  IF tok = "ACME.COM" THEN "acme.com" ELSE IF tok = "TRUE" THEN "true" ELSE tok

\* new URL(s).hostname as a token sequence, or <<>> when new URL(s) throws.
\* A URL is scheme, optional "www.", one host token, optional path.
Hostname(s) ==
  IF s = <<>> \/ Head(s) \notin Schemes THEN <<>>
  ELSE LET r == Tail(s)
           w == r # <<>> /\ Head(r) = "www."
           h == IF w THEN Tail(r) ELSE r
       IN  IF h = <<>> \/ Head(h) \notin HostTokens THEN <<>>
           ELSE IF Len(h) > 2 \/ (Len(h) = 2 /\ h[2] \notin PathTokens) THEN <<>>
           ELSE (IF w THEN <<"www.">> ELSE <<>>) \o <<Lower(Head(h))>>

UnknownDomain == <<"unknown">>

toNormalizedDomain(urlOrHost) ==
  LET s == Trim(urlOrHost)
  IN  IF s = <<>> THEN UnknownDomain
      ELSE LET h == IF StartsWithHttp(s) THEN Hostname(s)
                    ELSE Hostname(<<"https://">> \o s)
               h2 == IF h # <<>> /\ Head(h) = "www." THEN Tail(h) ELSE h
           IN  IF h2 = <<>> THEN UnknownDomain ELSE h2


(* ------------------------- raw model fragments ------------------------ *)
\* a fragment with every field absent; obj is typeof company === "object"
Blank ==
  [obj |-> TRUE, company_name |-> U, name |-> U, company |-> U,
   url |-> U, website |-> U,
   headquarters_location |-> U, headquarters |-> U,
   manufacturing_locations |-> U, manufacturing |-> U,
   company_tagline |-> U, description |-> U, product_focus |-> U,
   products |-> U]

Acme == S(<<"Acme">>)
Bolt == S(<<"Bolt">>)
Austin == S(<<"Austin">>)
Reno == S(<<"Reno">>)

\* the fragments a page of the completion provider is made of
Fragments ==
  { \* not an object
    [Blank EXCEPT !.obj = FALSE],
    \* the canonical field names
    [Blank EXCEPT !.company_name = Acme,
                  !.url = S(<<"https://", "acme.com">>),
                  !.headquarters_location = Austin,
                  !.manufacturing_locations = A(<<Austin, Reno>>)],
    \* the same company through aliases, with other values in other fields
    [Blank EXCEPT !.name = Acme,
                  !.website = S(<<SP, "https://", "www.", "ACME.COM", "/about">>),
                  !.manufacturing_locations = A(<<>>),
                  !.manufacturing = Reno],
    \* the same name on another domain; manufacturing_locations not an array
    [Blank EXCEPT !.company_name = Acme,
                  !.url = S(<<"bolt.io">>),
                  !.manufacturing_locations = Austin],
    \* values of the wrong type, which doc keeps
    [Blank EXCEPT !.company_name = N(42),
                  !.manufacturing = N(7)],
    \* a description that has no split method
    [Blank EXCEPT !.company_name = Bolt,
                  !.description = N(7)] }

(* ------------------------------ geocoding ----------------------------- *)
\* what the geocoding provider does with one lookup
GeoOutcomes == {"found", "none", "error"}
\* results[0].geometry.location of a lookup that finds the place
FoundLocation == [lat |-> 30, lng |-> 0 - 97]
NoLocation == [lat |-> 0, lng |-> 0]

\* geocodeLocation makes an outbound call for this location
GeoCalls(key, location) == key /\ Truthy(location)

\* variant of geocodeLocation: the location is not tested
geocodeLocationKeyOnly(key, location, outcome) ==
  IF ~key THEN NoLocation
  ELSE IF outcome = "found" THEN FoundLocation
  ELSE NoLocation

\* geocodeLocation(location) under the key setting and the answer of the
\* provider; the catch turns a failed lookup into {lat: 0, lng: 0}
geocodeLocation(key, location, outcome) ==
  IF ~key \/ ~Truthy(location) THEN NoLocation
  ELSE IF outcome = "found" THEN FoundLocation
  ELSE NoLocation

(* ---------------------------- normalization --------------------------- *)
\* hqLoc of callXAI
HqLoc(company) ==
  Or(Or(company.headquarters_location, company.headquarters), S(<<>>))

\* manuList of callXAI
ManuList(company) ==
  IF IsArray(company.manufacturing_locations)
     /\ Len(company.manufacturing_locations.a) # 0
  THEN company.manufacturing_locations.a
  ELSE IF Truthy(company.manufacturing) THEN <<company.manufacturing>>
  ELSE <<>>

\* the operand of .split(". ") in the company_tagline expression
TaglineSource(company) ==
  Or(Or(Or(company.description, company.product_focus), company.products),
     S(<<>>))

\* building doc raises (split is not a function)
ShapeError(company) ==
  ~Truthy(company.company_tagline) /\ ~IsString(TaglineSource(company))

RECURSIVE FirstSentence(_)
\* s.split(". ")[0]
FirstSentence(s) ==
  IF s = <<>> \/ Head(s) = ". " THEN <<>>
  ELSE <<Head(s)>> \o FirstSentence(Tail(s))

\* the number of outbound geocoding calls made while normalizing company
GeoCallCount(key, company) ==
  (IF GeoCalls(key, HqLoc(company)) THEN 1 ELSE 0)
  + Cardinality({i \in 1..Len(ManuList(company)) :
                   GeoCalls(key, ManuList(company)[i])})

\* the two events of one outbound lookup, in the order an awaited call produces
\* them; slot 0 is the headquarters, slot i the i-th entry of manuList
Lookup(visit, slot) ==
  << [ev |-> "send", visit |-> visit, slot |-> slot],
     [ev |-> "recv", visit |-> visit, slot |-> slot] >>

RECURSIVE ManuEvents(_, _, _, _)
\* the events of the loop over manuList, from entry i on
ManuEvents(key, manuList, visit, i) ==
  IF i > Len(manuList) THEN <<>>
  ELSE (IF GeoCalls(key, manuList[i]) THEN Lookup(visit, i) ELSE <<>>)
       \o ManuEvents(key, manuList, visit, i + 1)

\* variant of GeoEvents: the lookups of a fragment are all sent before any
\* answer is awaited
GeoEventsAtOnce(key, company, visit) ==
  LET e == (IF GeoCalls(key, HqLoc(company)) THEN Lookup(visit, 0) ELSE <<>>)
           \o ManuEvents(key, ManuList(company), visit, 1)
  IN  SelectSeq(e, LAMBDA x : x.ev = "send")
      \o SelectSeq(e, LAMBDA x : x.ev = "recv")

\* the geocoding events of one fragment: await geocodeLocation(hqLoc), then
\* one awaited geocodeLocation(loc) per entry of manuList
GeoEvents(key, company, visit) ==
  (IF GeoCalls(key, HqLoc(company)) THEN Lookup(visit, 0) ELSE <<>>)
  \o ManuEvents(key, ManuList(company), visit, 1)

RECURSIVE ManuCoordsFoundOnly(_, _, _, _)
\* variant of ManuCoords: a lookup that finds nothing pushes nothing
ManuCoordsFoundOnly(key, manuList, manuOuts, i) ==
  IF i > Len(manuList) THEN <<>>
  ELSE (IF geocodeLocation(key, manuList[i], manuOuts[i]) = NoLocation
        THEN <<>>
        ELSE <<geocodeLocation(key, manuList[i], manuOuts[i])>>)
       \o ManuCoordsFoundOnly(key, manuList, manuOuts, i + 1)

RECURSIVE ManuCoords(_, _, _, _)
\* the loop over manuList: one lookup and one push per entry, from entry i on
ManuCoords(key, manuList, manuOuts, i) ==
  IF i > Len(manuList) THEN <<>>
  ELSE <<geocodeLocation(key, manuList[i], manuOuts[i])>>
       \o ManuCoords(key, manuList, manuOuts, i + 1)

\* company_tagline of doc
Tagline(company) ==
  IF Truthy(company.company_tagline) THEN company.company_tagline
  ELSE S(FirstSentence(TaglineSource(company).s))

\* doc of callXAI, for a company that raises no shape error
Doc(company, key, hqOut, manuOuts, id) ==
  LET hqLoc == HqLoc(company)
      hq == geocodeLocation(key, hqLoc, hqOut)
      manuList == ManuList(company)
      m == ManuCoords(key, manuList, manuOuts, 1)
      url == Trim(String(Or(Or(company.url, company.website), S(<<>>))))
  IN  [company_name |->
         Or(Or(Or(company.company_name, company.name), company.company),
            S(<<"Unknown">>)),
       company_tagline |-> Tagline(company),
       url |-> url,
       headquarters_location |-> Or(hqLoc, S(<<"Unknown">>)),
       manufacturing_locations |-> manuList,
       hq_lat |-> hq.lat, hq_lng |-> hq.lng,
       lat |-> hq.lat, long |-> hq.lng,
       manu_lats |-> [i \in 1..Len(m) |-> m[i].lat],
       manu_lngs |-> [i \in 1..Len(m) |-> m[i].lng],
       id |-> id,
       normalized_domain |-> toNormalizedDomain(url)]

(* ------------------------------- schemas ------------------------------ *)
\* companySchema accepts the record
companySchema(d) ==
  /\ IsString(d.company_name)
  /\ IsString(d.company_tagline)
  /\ IsString(d.headquarters_location)
  /\ \A i \in 1..Len(d.manufacturing_locations) :
        IsString(d.manufacturing_locations[i])

\* the output of companySchema for an accepted record: unknown keys stripped
Parsed(d) ==
  [company_name |-> d.company_name,
   company_tagline |-> d.company_tagline,
   url |-> d.url,
   headquarters_location |-> d.headquarters_location,
   manufacturing_locations |-> d.manufacturing_locations,
   lat |-> d.lat, long |-> d.long,
   manu_lats |-> d.manu_lats, manu_lngs |-> d.manu_lngs]

\* variant of schema: some record of the list is accepted
schemaSome(list) ==
  list = <<>> \/ \E i \in 1..Len(list) : companySchema(list[i])

\* schema = z.array(companySchema) accepts the list
schema(list) == \A i \in 1..Len(list) : companySchema(list[i])

\* the back-compat mapping of limit onto maxImports
BackCompat(body) ==
  IF IsNumber(body.limit) /\ body.maxImports = U
  THEN [body EXCEPT !.maxImports = body.limit]
  ELSE body

\* variant of requestSchema: the lower bound is 0
requestSchemaMinZero(body) ==
  LET m == body.maxImports
  IN  \/ m = U
      \/ /\ IsNumber(m)
         /\ m.num % m.den = 0
         /\ m.num >= 0
         /\ m.num <= MaxImports * m.den

\* requestSchema accepts the (mapped) body
requestSchema(body) ==
  LET m == body.maxImports
  IN  \/ m = U
      \/ /\ IsNumber(m)
         /\ m.num % m.den = 0
         /\ m.num >= MinImports * m.den
         /\ m.num <= MaxImports * m.den

\* parsed.maxImports
ParsedMaxImports(body) ==
  IF body.maxImports = U THEN DefaultImports
  ELSE body.maxImports.num \div body.maxImports.den

\* requestSchema accepts the value of timeout_ms or timeoutMs:
\* z.number().int().optional()
timeoutSchema(v) == v = U \/ (IsFinite(v) /\ v.num % v.den = 0)

(* ------------------------------- timeout ------------------------------ *)
\* variant of clampTimeout: no lower limit
clampTimeoutNoMin(ms) ==
  IF ~IsFinite(ms) THEN N(DEFAULT) ELSE MathMin(N(MAX), ms)

clampTimeout(ms) ==
  IF ~IsFinite(ms) THEN N(DEFAULT) ELSE MathMin(N(MAX), MathMax(N(MIN), ms))

\* variant of envDefault: the fallback is the DEFAULT of clampTimeout
envDefaultFiveMinutes(envValue) == Number(Nullish(envValue, N(DEFAULT)))

\* Number(process.env.XAI_TIMEOUT_MS ?? 600000)
envDefault(envValue) == Number(Nullish(envValue, N(FallbackTimeout)))

\* timeoutMs of run, for a body the request schema accepts
timeoutMs(body, envValue) ==
  LET preferred == Nullish(body.timeout_ms, body.timeoutMs)
  IN  clampTimeout(Number(Nullish(preferred, envDefault(envValue))))

\* timeout of callXAI, the timeout of the axios instance of the completion call
timeout(ms, envValue) == clampTimeout(Nullish(ms, envDefault(envValue)))


(* ------------------------------- extractor ---------------------------- *)
\* the text of a completion is a sequence of tokens: the fence of three
\* backticks, the language tag, white space, brackets and commas, the text of
\* a JSON object, and words of prose
\* the fence: three backticks
Fence == "<fence>"
JsonTags == {"json", "JSON"}
NL == "\n"
White == {SP, NL}
AcmeObj == "{\"company_name\":\"Acme\"}"
BoltObj == "{\"company_name\":\"Bolt\"}"
ObjectTokens == {AcmeObj, BoltObj}
\* the two ends of the text of an object whose notes hold three backticks:
\* {"notes":"a ``` b"} is <<NotesHead, Fence, NotesTail>>
NotesHead == "{\"notes\":\"a "
NotesTail == " b\"}"
\* the two ends of the text of an object {"companies": [...]}
CompaniesHead == "{\"companies\":"
CompaniesTail == "}"

RECURSIVE TrimWhiteLeft(_)
TrimWhiteLeft(s) ==
  IF s # <<>> /\ Head(s) \in White THEN TrimWhiteLeft(Tail(s)) ELSE s

RECURSIVE TrimWhiteRight(_)
TrimWhiteRight(s) ==
  IF s # <<>> /\ s[Len(s)] \in White
  THEN TrimWhiteRight(SubSeq(s, 1, Len(s) - 1))
  ELSE s

\* String.prototype.trim on a text with line breaks
TrimWhite(s) == TrimWhiteRight(TrimWhiteLeft(s))

\* the least and the greatest element of a non-empty set of numbers
Least(I) == CHOOSE i \in I : \A j \in I : i <= j
Greatest(I) == CHOOSE i \in I : \A j \in I : j <= i

\* the positions of the fences of s
FenceIdx(s) == {i \in 1..Len(s) : s[i] = Fence}

\* s.match(/```(?:json)?\s*([\s\S]*?)```/i) finds a match: an opening fence
\* and a fence after it
HasFence(s) == Cardinality(FenceIdx(s)) >= 2

\* fence[1]: after the first fence, an optional tag and white space are
\* skipped and the group takes, lazily, what comes before the next fence
FenceInner(s) ==
  LET i == Least(FenceIdx(s))
      k1 == IF s[i + 1] \in JsonTags THEN i + 2 ELSE i + 1
      k == Least({x \in k1..Len(s) : s[x] \notin White})
      j == Least({x \in FenceIdx(s) : x >= k})
  IN  SubSeq(s, k, j - 1)

NoParse == [ok |-> FALSE, list |-> <<>>]

RECURSIVE Elements(_, _)
\* the values of a comma-separated list of JSON values without white space;
\* first tells that the list may be empty
Elements(s, first) ==
  IF s = <<>> THEN [ok |-> first, list |-> <<>>]
  ELSE LET n == IF Head(s) \in ObjectTokens THEN 1
                ELSE IF /\ Len(s) >= 3
                        /\ s[1] = NotesHead /\ s[2] = Fence /\ s[3] = NotesTail
                THEN 3
                ELSE 0
           rest == SubSeq(s, n + 1, Len(s))
       IN  IF n = 0 THEN NoParse
           ELSE IF rest = <<>> THEN [ok |-> TRUE, list |-> <<SubSeq(s, 1, n)>>]
           ELSE IF Head(rest) # "," THEN NoParse
           ELSE LET more == Elements(Tail(rest), FALSE)
                IN  IF more.ok
                    THEN [ok |-> TRUE, list |-> <<SubSeq(s, 1, n)>> \o more.list]
                    ELSE NoParse

\* JSON.parse(s) for a text that is an array: ok is FALSE when it throws
JSONArray(s) ==
  LET t == SelectSeq(s, LAMBDA x : x \notin White)
  IN  IF Len(t) >= 2 /\ t[1] = "[" /\ t[Len(t)] = "]"
      THEN Elements(SubSeq(t, 2, Len(t) - 1), TRUE)
      ELSE NoParse

\* obj.companies of JSON.parse(s) for a text that is an object: ok is FALSE
\* when JSON.parse throws or obj.companies is not an array
JSONCompanies(s) ==
  LET t == SelectSeq(s, LAMBDA x : x \notin White)
  IN  IF Len(t) >= 2 /\ t[1] = CompaniesHead /\ t[Len(t)] = CompaniesTail
      THEN JSONArray(SubSeq(t, 2, Len(t) - 1))
      ELSE NoParse

\* s.startsWith("{") and s.startsWith("[")
StartsWithBrace(s) ==
  s # <<>> /\ Head(s) \in ObjectTokens \cup {NotesHead, CompaniesHead}
StartsWithBracket(s) == s # <<>> /\ Head(s) = "["

\* the result of trimToArrayJson: null tells that companies is null
Extracted(list, note) == [null |-> FALSE, companies |-> list, note |-> note]
NotExtracted(note) == [null |-> TRUE, companies |-> <<>>, note |-> note]

trimToArrayJson(text) ==
  IF ~Truthy(text) THEN NotExtracted("empty")
  ELSE
    LET s0 == TrimWhite(String(text))
        s == IF HasFence(s0) THEN TrimWhite(FenceInner(s0)) ELSE s0
        brackets == {i \in 1..Len(s) : s[i] = "["}
        closings == {i \in 1..Len(s) : s[i] = "]"}
        a == IF brackets = {} THEN 0 ELSE Least(brackets)
        b == IF closings = {} THEN 0 ELSE Greatest(closings)
    IN  IF StartsWithBrace(s) /\ JSONCompanies(s).ok
        THEN Extracted(JSONCompanies(s).list, "object.companies")
        ELSE IF StartsWithBracket(s) /\ JSONArray(s).ok
        THEN Extracted(JSONArray(s).list, "array")
        ELSE IF a >= 1 /\ b > a /\ JSONArray(SubSeq(s, a, b)).ok
        THEN Extracted(JSONArray(SubSeq(s, a, b)).list, "sliced-array")
        ELSE NotExtracted("unparseable")

(* ----------------------------- affiliate tag -------------------------- *)
\* the parameters of a query string, and the one ensureAffiliateTag sets
TagParam == "tag=tabarnam00-20"
OtherTag == "tag=other-20"
Params == {"ref=1", OtherTag, TagParam}
IsTag(param) == param \in {OtherTag, TagParam}

\* /amazon\./i.test(hostname)
ContainsAmazonDot(hostname) == hostname \in {"amazon.com", "notamazon.example"}

NoUrl ==
  [ok |-> FALSE, scheme |-> "", www |-> FALSE, host |-> "", path |-> "",
   query |-> <<>>]

\* new URL(s): a scheme, an optional "www.", a host, an optional path and an
\* optional "?" with parameters; ok is FALSE when the constructor throws. The
\* host is lower-cased and an empty path is "/"
ParseUrl(s) ==
  IF s = <<>> \/ Head(s) \notin Schemes THEN NoUrl
  ELSE
    LET r == Tail(s)
        w == r # <<>> /\ Head(r) = "www."
        h == IF w THEN Tail(r) ELSE r
        q == {i \in 1..Len(h) : h[i] = "?"}
        cut == IF q = {} THEN Len(h) + 1 ELSE Least(q)
        front == SubSeq(h, 1, cut - 1)
        query == SubSeq(h, cut + 1, Len(h))
    IN  IF front = <<>> \/ Head(front) \notin HostTokens THEN NoUrl
        ELSE IF Len(front) > 2 \/ (Len(front) = 2 /\ front[2] \notin PathTokens)
        THEN NoUrl
        ELSE IF \E i \in 1..Len(query) : query[i] \notin Params THEN NoUrl
        ELSE [ok |-> TRUE, scheme |-> Head(s), www |-> w,
              host |-> Lower(Head(front)),
              path |-> IF Len(front) = 2 THEN front[2] ELSE "/",
              query |-> query]

\* url.searchParams.set("tag", "tabarnam00-20"): the first tag parameter takes
\* the value and the others go; without one the parameter is appended
SetTag(query) ==
  LET tags == {i \in 1..Len(query) : IsTag(query[i])}
  IN  IF tags = {} THEN Append(query, TagParam)
      ELSE LET f == Least(tags)
           IN  SubSeq(query, 1, f - 1) \o <<TagParam>>
               \o SelectSeq(SubSeq(query, f + 1, Len(query)),
                            LAMBDA x : ~IsTag(x))

\* url.toString()
Serialize(u) ==
  <<u.scheme>> \o (IF u.www THEN <<"www.">> ELSE <<>>) \o <<u.host, u.path>>
  \o (IF u.query = <<>> THEN <<>> ELSE <<"?">> \o u.query)

\* the argument of new URL in ensureAffiliateTag
WithScheme(s) == IF StartsWithHttp(s) THEN s ELSE <<"https://">> \o s

\* variant of ensureAffiliateTag: the tag is set whatever the host is
ensureAffiliateTagEveryHost(input) ==
  IF ~Truthy(input) THEN S(<<>>)
  ELSE IF ~IsString(input) THEN input
  ELSE LET url == ParseUrl(WithScheme(input.s))
       IN  IF ~url.ok THEN input
           ELSE S(Serialize([url EXCEPT !.query = SetTag(url.query)]))

\* input.startsWith raises for a value that is not a string, new URL for a
\* text that is no URL: the catch returns the input
ensureAffiliateTag(input) ==
  IF ~Truthy(input) THEN S(<<>>)
  ELSE IF ~IsString(input) THEN input
  ELSE LET url == ParseUrl(WithScheme(input.s))
       IN  IF ~url.ok THEN input
           ELSE IF ContainsAmazonDot(url.host)
           THEN S(Serialize([url EXCEPT !.query = SetTag(url.query)]))
           ELSE S(Serialize(url))

(* -------------------------------- prompt ------------------------------ *)
\* buildPrompt(search, previous): the text names the search filters (parts,
\* "any company" when there is none); the template does not use previous
buildPrompt(parts, previous) ==
  [matches |-> IF parts = <<>> THEN <<"any company">> ELSE parts,
   excluded |-> <<>>]

\* list.map(c => c.company_name)
Names(list) == [i \in 1..Len(list) |-> list[i].company_name]

(* ------------------------------- requests ----------------------------- *)
Methods == {"OPTIONS", "GET", "PUT", "POST"}

\* req.headers.origin: absent, or the origin of the page that sent the request
Origins == {U, S(<<"https://app.example">>)}

\* request bodies: maxImports alone, limit alone, and both together
Bodies ==
  { [maxImports |-> m, limit |-> U] :
      m \in {N(0), N(1), N(MaxImports + 1), Q(3, 2), S(<<"2">>)} }
  \cup { [maxImports |-> U, limit |-> l] :
           l \in {N(0), N(MaxReq), N(MaxImports + 1), Q(3, 2), S(<<"0">>)} }
  \cup { [maxImports |-> N(0), limit |-> N(1)] }

\* the requests of the model: every method with every body, with and without
\* an Origin header; a POST that carries the header asks for maxImports 0 or 1
Requests ==
  { r \in [method : Methods, origin : Origins, body : Bodies] :
      (r.method = "POST" /\ r.origin # U)
        => (r.body.limit = U /\ r.body.maxImports \in {N(0), N(1)}) }

\* process.env: stub mode, XAI_API_KEY set, GOOGLE_GEOCODING_API_KEY set,
\* and whether the Cosmos client can be constructed from the COSMOS_DB_* settings
\* the values of XAI_STUB: not set, two that turn stub mode on and one that
\* does not, tried with the other variables not set
StubValues == {U, S(<<"1">>), S(<<SP, "TRUE", SP>>), S(<<"false">>)}

\* variant of on: the value is compared as it is
onExact(v) ==
  String(Nullish(v, S(<<>>))) \in {<<"1">>, <<"true">>, <<"yes">>, <<"on">>}

\* on(v): the trimmed, lower-cased text of v is one of the four words
on(v) ==
  LET t == Trim(String(Nullish(v, S(<<>>))))
  IN  [i \in 1..Len(t) |-> Lower(t[i])]
        \in {<<"1">>, <<"true">>, <<"yes">>, <<"on">>}

\* the environment: XAI_STUB, and whether XAI_API_KEY and GOOGLE_GEOCODE_KEY
\* are set and the document-store client can be constructed
Envs ==
  { e \in [stub : StubValues, apiKey : BOOLEAN, geoKey : BOOLEAN,
           cosmos : BOOLEAN] :
      e.stub = S(<<"false">>) => (~e.apiKey /\ ~e.geoKey /\ ~e.cosmos) }

\* context.res; allowOrigin is the Access-Control-Allow-Origin header, U when
\* the response has no CORS headers
NoRes ==
  [status |-> 0, companies |-> <<>>, flag |-> "", error |-> "",
   allowOrigin |-> U]
Res(status, companies, flag, error, allowOrigin) ==
  [status |-> status, companies |-> companies, flag |-> flag, error |-> error,
   allowOrigin |-> allowOrigin]

\* cors["Access-Control-Allow-Origin"]
AllowOrigin(origin) == Or(origin, S(<<"*">>))

Complete == "complete"
Exhaustive == "exhaustive - review or revise search"

(* --------------------- inputs of the pure functions -------------------- *)
\* locations handed to geocodeLocation
Locations == {U, S(<<>>), S(<<SP>>), Austin, Reno, N(0), N(7)}

\* values of timeout_ms and timeoutMs in a request body
TimeoutValues ==
  {U, N(0), N(0 - 5), N(MIN - 1), N(60000), N(MAX), N(MAX + 1), Q(3, 2),
   S(<<"60000">>)}

\* values of the environment variable XAI_TIMEOUT_MS
EnvTimeouts ==
  {U, S(<<>>), S(<<"abc">>), S(<<"5000">>), S(<<"7200000">>), S(<<"-1">>),
   S(<<"1800000.5">>), S(<<"Infinity">>)}

GeoInputs ==
  [fn : {"geocodeLocation"}, key : BOOLEAN, location : Locations,
   outcome : GeoOutcomes]

\* a body with one of the two timeout fields, or with both
TimeoutInputs ==
  { i \in [fn : {"timeout"}, timeout_ms : TimeoutValues,
           timeoutMs : TimeoutValues, envValue : EnvTimeouts] :
      i.timeout_ms = U \/ i.timeoutMs \in {U, N(60000), Q(3, 2)} }

\* texts that wrap a JSON array in a fenced block: prose, the opening fence
\* with or without a tag, the array, the closing fence, prose
Arrays ==
  { <<"[", "]">>,
    <<"[", AcmeObj, "]">>,
    <<"[", SP, AcmeObj, ",", NL, BoltObj, "]">>,
    <<"[", NotesHead, Fence, NotesTail, "]">> }
Before == { <<>>, <<"Sure!", SP>>, <<"See", SP, "[", "1", "]", ":", NL>> }
After == { <<>>, <<NL, "Done.">>, <<SP, "[", "sic", "]">> }
Openers == { <<Fence>>, <<Fence, NL>>, <<Fence, "json", NL>>, <<Fence, "JSON", SP>> }
Closers == { <<Fence>>, <<NL, Fence>> }

FencedInputs ==
  { [fn |-> "trimToArrayJson", text |-> S(b \o o \o a \o c \o f),
     inner |-> a, fenced |-> TRUE] :
      b \in Before, o \in Openers, a \in Arrays, c \in Closers, f \in After }

\* other texts: nothing, a bare array, an array in prose, an object with
\* companies, bare and in a fence, one object, and prose alone
PlainInputs ==
  { [fn |-> "trimToArrayJson", text |-> t, inner |-> <<>>, fenced |-> FALSE] :
      t \in { U, S(<<>>),
              S(<<SP, "[", AcmeObj, "]", NL>>),
              S(<<"Sure!", SP, "[", AcmeObj, ",", BoltObj, "]", SP, "Done.">>),
              S(<<"See", SP, "[", "1", "]", ":", SP, "[", AcmeObj, "]">>),
              S(<<CompaniesHead, "[", AcmeObj, "]", CompaniesTail>>),
              S(<<Fence, "json", NL, CompaniesHead, "[", BoltObj, "]",
                  CompaniesTail, NL, Fence>>),
              S(<<AcmeObj>>),
              S(<<"Sorry,", SP, "nothing">>) } }

\* arguments of ensureAffiliateTag
AffiliateInputs ==
  { [fn |-> "ensureAffiliateTag", url |-> u] :
      u \in { U, S(<<>>), N(7), S(<<"not a url">>),
              S(<<"https://", "amazon.com", "/dp/B01">>),
              S(<<"https://", "www.", "amazon.com", "/dp/B01", "?", "ref=1">>),
              S(<<"http://", "amazon.com", "/dp/B01", "?", OtherTag>>),
              S(<<"amazon.com", "/dp/B01">>),
              S(<<"https://", "amazon.com">>),
              S(<<"https://", "notamazon.example", "/about">>),
              S(<<"https://", "acme.com", "/about">>),
              S(<<"https://", "acme.com", "/about", "?", "ref=1">>),
              S(<<"https://", "acme.com">>),
              S(<<"https://", "ACME.COM", "/about">>),
              S(<<"bolt.io", "/about">>) } }

NoInput == [fn |-> ""]
NoOutput == [fn |-> ""]

(* -------------------------------- state ------------------------------- *)
VARIABLES
  pc,          \* where the invocation is: idle, request, normalize, validate, done
  req,         \* the request: method, Origin header and body
  env,         \* the environment of the invocation
  maxImports,  \* parsed.maxImports
  all,         \* callXAI: the accumulated list
  page,        \* callXAI: the page counter
  clean,       \* callXAI: the normalized records of the current page
  pending,     \* how many fragments of the current page are not yet visited
  fragments,   \* the fragments returned so far by the completion provider
  cosmosContainer, \* the memoized container: "null" or "ready"
  calls,       \* completion calls issued
  geoCalls,    \* geocoding calls issued
  upserts,     \* the records passed to container.items.upsert, with the outcome
  faults,      \* geocoding lookups and upserts that failed or found nothing
  nextId,      \* source of the fresh ids of doc
  acceptedOn,  \* for each entry of all, the page that accepted it
  discarded,   \* the records the filter of a page dropped, with the page
  callLog,     \* the completion calls: page, prompt, answer, novel records
  visited,     \* iterations of the loop over parsed.companies
  visits,      \* the objects among the visited fragments: page, what became of it
  geoTrace,    \* the events of the geocoding lookups, in order
  input,       \* the arguments of a pure function applied on its own
  output,      \* its result
  inits,       \* attempts to construct the document-store client
  responses,   \* assignments to context.res
  res          \* context.res

vars == <<pc, req, env, maxImports, all, page, clean, pending, fragments,
          cosmosContainer, calls, geoCalls, upserts, faults, nextId,
          acceptedOn, discarded, callLog, visited, visits, geoTrace, input,
          output, inits, responses, res>>

NoReq == [method |-> "", origin |-> U, body |-> [maxImports |-> U, limit |-> U]]
NoEnv == [stub |-> U, apiKey |-> FALSE, geoKey |-> FALSE, cosmos |-> FALSE]

\* no request has arrived
Idle ==
  /\ pc = "idle"
  /\ req = NoReq
  /\ env = NoEnv
  /\ maxImports = 0
  /\ all = <<>>
  /\ page = 1
  /\ clean = <<>>
  /\ pending = 0
  /\ fragments = 0
  /\ cosmosContainer = "null"
  /\ calls = 0
  /\ geoCalls = 0
  /\ upserts = <<>>
  /\ faults = 0
  /\ nextId = 1
  /\ acceptedOn = <<>>
  /\ discarded = <<>>
  /\ callLog = <<>>
  /\ visited = 0
  /\ visits = <<>>
  /\ geoTrace = <<>>
  /\ inits = 0
  /\ responses = 0
  /\ res = NoRes

Init ==
  /\ Idle
  /\ input = NoInput
  /\ output = NoOutput

\* variant of LoopCond: the page counter may pass maxImports by one
LoopCondOffByOne(p, a, m) == p <= m + 1 /\ Len(a) < m

\* the condition of the while loop of callXAI
LoopCond(p, a, m) == p <= m /\ Len(a) < m

\* where control goes when the loop condition is evaluated
AfterLoopTest(p, a, m) == IF LoopCond(p, a, m) THEN "request" ELSE "validate"

\* variant of MethodStatus: GET is handled as POST is
MethodStatusGetAllowed(method) ==
  IF method = "OPTIONS" THEN 204
  ELSE IF method \notin {"POST", "GET"} THEN 405
  ELSE 0

\* the status run answers on the method alone, 0 when it goes on to the body
MethodStatus(method) ==
  IF method = "OPTIONS" THEN 204
  ELSE IF method # "POST" THEN 405
  ELSE 0

\* variant of Caught: the exception leaves run and no response is assigned
CaughtRethrown(error) == NoRes

\* the catch of run: a 500 response without CORS headers
Caught(error) == Res(500, <<>>, "", error, U)

\* run, from its entry to the first completion call or to an early response
Run(method, origin, body, e) ==
  /\ pc = "idle"
  /\ req' = [method |-> method, origin |-> origin, body |-> body]
  /\ env' = e
  /\ UNCHANGED <<all, page, clean, pending, fragments, cosmosContainer,
                 calls, geoCalls, upserts, faults, nextId, acceptedOn,
                 discarded, callLog, visited, visits, geoTrace, input,
                 output, inits>>
  /\ IF MethodStatus(method) = 204
     THEN /\ res' = Res(204, <<>>, "", "", AllowOrigin(origin))
          /\ responses' = responses + 1
          /\ pc' = "done"
          /\ UNCHANGED maxImports
     ELSE IF MethodStatus(method) = 405
     THEN /\ res' = Res(405, <<>>, "", "Method Not Allowed", AllowOrigin(origin))
          /\ responses' = responses + 1
          /\ pc' = "done"
          /\ UNCHANGED maxImports
     ELSE IF ~requestSchema(BackCompat(body))
     THEN /\ res' = Res(400, <<>>, "", "Invalid request format",
                        AllowOrigin(origin))
          /\ responses' = responses + 1
          /\ pc' = "done"
          /\ UNCHANGED maxImports
     ELSE /\ maxImports' = ParsedMaxImports(BackCompat(body))
          /\ IF on(e.stub)
             THEN /\ res' = Res(200, <<>>, "stub", "", AllowOrigin(origin))
                  /\ responses' = responses + 1
                  /\ pc' = "done"
             ELSE IF ~e.apiKey
             THEN /\ res' = Caught("Missing XAI_API_KEY")
                  /\ responses' = responses + 1
                  /\ pc' = "done"
             ELSE /\ UNCHANGED <<res, responses>>
                  /\ pc' = AfterLoopTest(1, <<>>,
                                          ParsedMaxImports(BackCompat(body)))

\* the entry of callLog for the call of the current page: accepted is the
\* length of the accumulated list at the call, novel the number of records the
\* page added, -1 as long as the page is not deduplicated
Call(answer) ==
  [page |-> page, prompt |-> buildPrompt(<<>>, Names(all)), answer |-> answer,
   accepted |-> Len(all), novel |-> 0 - 1]

\* variant of PageAfterCatch: the catch leaves the page counter alone
PageAfterCatchSame(p) == p

\* the catch of the page: page++
PageAfterCatch(p) == p + 1

\* the completion call of the current page fails: the catch advances the page
CompletionFails ==
  /\ pc = "request"
  /\ calls' = calls + 1
  /\ callLog' = Append(callLog, Call("error"))
  /\ page' = PageAfterCatch(page)
  /\ pc' = AfterLoopTest(PageAfterCatch(page), all, maxImports)
  /\ UNCHANGED <<req, env, maxImports, all, clean, pending, fragments,
                 cosmosContainer, geoCalls, upserts, faults, nextId,
                 acceptedOn, discarded, visited, visits, geoTrace, input,
                 output, inits, responses, res>>

\* variant of AfterNoCompanies: the loop goes on to its test
AfterNoCompaniesContinue(p, a, m) == AfterLoopTest(p, a, m)

\* where control goes when no company is recovered from the text: break
AfterNoCompanies(p, a, m) == "validate"

\* the completion call returns text from which no company is recovered
CompletionNoCompanies ==
  /\ pc = "request"
  /\ calls' = calls + 1
  /\ callLog' = Append(callLog, Call("none"))
  /\ pc' = AfterNoCompanies(page, all, maxImports)
  /\ UNCHANGED <<req, env, maxImports, all, page, clean, pending, fragments,
                 cosmosContainer, geoCalls, upserts, faults, nextId,
                 acceptedOn, discarded, visited, visits, geoTrace, input,
                 output, inits, responses, res>>

\* the completion call returns a non-empty array of n fragments; the loop
\* reads each fragment once, and the model draws it when the loop reaches it
CompletionReturns(n) ==
  /\ pc = "request"
  /\ calls' = calls + 1
  /\ callLog' = Append(callLog, Call("companies"))
  /\ pending' = n
  /\ fragments' = fragments + n
  /\ clean' = <<>>
  /\ pc' = "normalize"
  /\ UNCHANGED <<req, env, maxImports, all, page, cosmosContainer, geoCalls,
                 upserts, faults, nextId, acceptedOn, discarded, visited,
                 visits, geoTrace, input, output, inits, responses, res>>

\* the lookups of one normalization whose outcome is not "found"
GeoFaultCount(hqOut, manuOuts) ==
  (IF hqOut # "found" THEN 1 ELSE 0)
  + Cardinality({i \in DOMAIN manuOuts : manuOuts[i] # "found"})

\* the outcomes name one answer per lookup of the normalization, and "found"
\* for a lookup that is not made, so that each behaviour is taken once
GeoOutcomesFit(key, company, hqOut, manuOuts) ==
  LET manuList == ManuList(company)
  IN  /\ DOMAIN manuOuts = 1..Len(manuList)
      /\ (company.obj /\ GeoCalls(key, HqLoc(company))) \/ hqOut = "found"
      /\ \A i \in 1..Len(manuList) :
            (company.obj /\ GeoCalls(key, manuList[i])) \/ manuOuts[i] = "found"

\* getCosmosContainer: the memoized container, or a new attempt to build it
getCosmosContainer(container, canBuild) ==
  IF container # "null" THEN container
  ELSE IF canBuild THEN "ready" ELSE "null"

\* variant of Remaining: an exception ends the loop over the page
RemainingUnlessRaised(n, company) ==
  IF company.obj /\ ShapeError(company) THEN 0 ELSE n - 1

\* the fragments left to the for-of loop after an iteration over company: the
\* inner catch ends the iteration, not the loop
Remaining(n, company) == n - 1

\* variant of CleanAfter: the record is kept when its upsert succeeds
CleanAfterUpsert(cl, doc, pushed, upsertOk) ==
  IF pushed /\ upsertOk THEN Append(cl, doc) ELSE cl

\* clean after an iteration: clean.push(doc) precedes the upsert, whose
\* exception is caught
CleanAfter(cl, doc, pushed, upsertOk) ==
  IF pushed THEN Append(cl, doc) ELSE cl

\* one iteration of the loop over parsed.companies
NormalizeCompany(company, hqOut, manuOuts, upsertOk) ==
  LET \* the iteration reaches clean.push(doc)
      pushed == company.obj /\ ~ShapeError(company)
      container == getCosmosContainer(cosmosContainer, env.cosmos)
      \* the iteration reaches container.items.upsert(doc)
      upserted == pushed /\ container = "ready"
      failed == (IF company.obj THEN GeoFaultCount(hqOut, manuOuts) ELSE 0)
                + (IF upsertOk THEN 0 ELSE 1)
  IN  /\ pc = "normalize"
      /\ pending > 0
      /\ GeoOutcomesFit(env.geoKey, company, hqOut, manuOuts)
      /\ faults + failed <= MaxFaults
      /\ upsertOk \/ upserted
      /\ pending' = Remaining(pending, company)
      /\ geoCalls' = IF company.obj
                     THEN geoCalls + GeoCallCount(env.geoKey, company)
                     ELSE geoCalls
      /\ geoTrace' = IF company.obj
                     THEN geoTrace
                          \o GeoEvents(env.geoKey, company, Len(visits) + 1)
                     ELSE geoTrace
      /\ visited' = visited + 1
      /\ visits' = IF company.obj
                   THEN Append(visits,
                               [page |-> page,
                                kind |-> IF pushed THEN "pushed" ELSE "raised",
                                id |-> IF pushed THEN nextId ELSE 0])
                   ELSE visits
      /\ faults' = faults + failed
      /\ clean' = IF pushed
                  THEN CleanAfter(clean,
                                  Doc(company, env.geoKey, hqOut, manuOuts,
                                      nextId),
                                  pushed, upsertOk)
                  ELSE clean
      /\ nextId' = IF pushed THEN nextId + 1 ELSE nextId
      /\ cosmosContainer' = IF pushed THEN container ELSE cosmosContainer
      /\ inits' = IF pushed /\ cosmosContainer = "null" THEN inits + 1 ELSE inits
      /\ upserts' = IF upserted
                    THEN Append(upserts,
                                [doc |-> Doc(company, env.geoKey, hqOut,
                                             manuOuts, nextId),
                                 ok |-> upsertOk])
                    ELSE upserts
      /\ UNCHANGED <<pc, req, env, maxImports, all, page, fragments, calls,
                     acceptedOn, discarded, callLog, input, output,
                     responses, res>>

\* variant of Novel: records are compared by id
NovelById(c, list) == ~\E i \in 1..Len(list) : list[i].id = c.id

\* c is not in the accumulated list under the key (company_name, normalized_domain)
Novel(c, list) ==
  ~\E i \in 1..Len(list) :
      /\ list[i].company_name = c.company_name
      /\ list[i].normalized_domain = c.normalized_domain

\* unique of callXAI
Unique(cl, list) == SelectSeq(cl, LAMBDA c : Novel(c, list))

\* the records of the page the filter drops, each with the page
Dropped(cl, list, p) ==
  LET d == SelectSeq(cl, LAMBDA c : ~Novel(c, list))
  IN  [i \in 1..Len(d) |-> [doc |-> d[i], page |-> p]]

\* variant of NoneNovel: the loop never stops on a page without novel records
NoneNovelNever(unique) == FALSE

\* if (!unique.length) break
NoneNovel(unique) == Len(unique) = 0

\* the end of a page: deduplicate, accumulate, break or advance
PageEnd ==
  /\ pc = "normalize"
  /\ pending = 0
  /\ LET unique == Unique(clean, all)
     IN  /\ all' = all \o unique
         /\ acceptedOn' = acceptedOn \o [i \in 1..Len(unique) |-> page]
         /\ discarded' = discarded \o Dropped(clean, all, page)
         /\ callLog' = [callLog EXCEPT ![Len(callLog)].novel = Len(unique)]
         /\ IF NoneNovel(unique)
            THEN /\ page' = page
                 /\ pc' = "validate"
            ELSE /\ page' = page + 1
                 /\ pc' = AfterLoopTest(page + 1, all \o unique, maxImports)
  /\ clean' = <<>>
  /\ UNCHANGED <<req, env, maxImports, pending, fragments, cosmosContainer, calls,
                 geoCalls, upserts, faults, nextId, visited, visits, geoTrace,
                 input, output, inits, responses, res>>

\* variant of Status: a list of exactly maxImports records is exhaustive
StatusOffByOne(validated, m) ==
  IF Len(validated) <= (IF m # 0 THEN m ELSE 1) THEN Exhaustive ELSE Complete

\* status of the live response
Status(validated, m) ==
  IF Len(validated) < (IF m # 0 THEN m ELSE 1) THEN Exhaustive ELSE Complete

\* run, after callXAI returned: final validation and the response
Respond ==
  /\ pc = "validate"
  /\ pc' = "done"
  /\ res' = IF schema(all)
            THEN LET validated == [i \in 1..Len(all) |-> Parsed(all[i])]
                 IN  Res(200, validated, Status(validated, maxImports), "",
                         AllowOrigin(req.origin))
            ELSE Caught("validation")
  /\ responses' = responses + 1
  /\ UNCHANGED <<req, env, maxImports, all, page, clean, pending, fragments,
                 cosmosContainer, calls, geoCalls, upserts, faults, nextId,
                 acceptedOn, discarded, callLog, visited, visits, geoTrace,
                 input, output, inits>>

\* one answer of the geocoding provider per entry of manuList
ManuOutcomes(company) == [1..Len(ManuList(company)) -> GeoOutcomes]

Next ==
  \/ /\ pc = "idle"
     /\ \E r \in Requests, e \in Envs : Run(r.method, r.origin, r.body, e)
  \/ CompletionFails
  \/ CompletionNoCompanies
  \/ \E n \in 1..(MaxFragments - fragments) : CompletionReturns(n)
  \/ /\ pc = "normalize"
     /\ \E company \in Fragments :
          \E hqOut \in GeoOutcomes, manuOuts \in ManuOutcomes(company),
             upsertOk \in BOOLEAN :
            NormalizeCompany(company, hqOut, manuOuts, upsertOk)
  \/ PageEnd
  \/ Respond

Spec == Init /\ [][Next]_vars

(* ------------------ the pure functions, applied on their own ----------- *)
\* what the main specification leaves alone
callVars ==
  <<pc, req, env, maxImports, all, page, clean, pending, fragments,
    cosmosContainer, calls, geoCalls, upserts, faults, nextId, acceptedOn,
    discarded, callLog, visited, visits, geoTrace, inits, responses, res>>

UnitInit ==
  /\ Idle
  /\ input \in GeoInputs \cup TimeoutInputs \cup FencedInputs \cup PlainInputs
                \cup AffiliateInputs
  /\ output = NoOutput

\* geocodeLocation(location) under a key and an answer of the provider
ApplyGeocode ==
  /\ input.fn = "geocodeLocation"
  /\ output = NoOutput
  /\ output' = [fn |-> "geocodeLocation",
                value |-> geocodeLocation(input.key, input.location,
                                          input.outcome),
                called |-> GeoCalls(input.key, input.location)]
  /\ UNCHANGED <<input, callVars>>

\* the timeout of the completion call: run validates the body and computes
\* timeoutMs, callXAI computes the timeout of its axios instance from it
ApplyTimeout ==
  /\ input.fn = "timeout"
  /\ output = NoOutput
  /\ output' =
       IF timeoutSchema(input.timeout_ms) /\ timeoutSchema(input.timeoutMs)
       THEN [fn |-> "timeout", status |-> 0,
             timeout |-> timeout(timeoutMs(input, input.envValue),
                                 input.envValue)]
       ELSE [fn |-> "timeout", status |-> 400, timeout |-> U]
  /\ UNCHANGED <<input, callVars>>

\* trimToArrayJson(text)
ApplyTrim ==
  /\ input.fn = "trimToArrayJson"
  /\ output = NoOutput
  /\ output' = [fn |-> "trimToArrayJson", value |-> trimToArrayJson(input.text)]
  /\ UNCHANGED <<input, callVars>>

\* ensureAffiliateTag(input)
ApplyAffiliate ==
  /\ input.fn = "ensureAffiliateTag"
  /\ output = NoOutput
  /\ output' = [fn |-> "ensureAffiliateTag",
                value |-> ensureAffiliateTag(input.url)]
  /\ UNCHANGED <<input, callVars>>

UnitNext == ApplyGeocode \/ ApplyTimeout \/ ApplyTrim \/ ApplyAffiliate

UnitSpec == UnitInit /\ [][UnitNext]_vars


(* ------------------------------ properties ---------------------------- *)
\* the deduplication key of a normalized record
Key(d) == <<d.company_name, d.normalized_domain>>

RECURSIVE StoreAfter(_, _)
\* the documents of the container after the first n upserts: an upsert that
\* succeeds replaces the document of the same id, or adds one
StoreAfter(ups, n) ==
  IF n = 0 THEN {}
  ELSE LET before == StoreAfter(ups, n - 1)
       IN  IF ups[n].ok
           THEN {d \in before : d.id # ups[n].doc.id} \cup {ups[n].doc}
           ELSE before

\* the documents of the container
Store == StoreAfter(upserts, Len(upserts))

\* the invocation is a valid POST that reaches callXAI
Live ==
  /\ req.method = "POST"
  /\ ~on(env.stub)
  /\ env.apiKey
  /\ maxImports >= MinImports

\* every record the invocation has normalized and kept so far
Records ==
  {all[i] : i \in 1..Len(all)} \cup {clean[i] : i \in 1..Len(clean)}
  \cup {upserts[i].doc : i \in 1..Len(upserts)}
  \cup {discarded[i].doc : i \in 1..Len(discarded)}

\* C1 (as claimed): the accumulated list never holds two records with the same
\* company_name and normalized_domain, also when both come from one page.
C1_NoDuplicateKeys ==
  \A i, j \in 1..Len(all) : i # j => Key(all[i]) # Key(all[j])

\* C2: a record whose key equals that of a record accepted on an earlier page
\* is not appended: two entries of the accumulated list with the same key were
\* accepted on the same page, and every record dropped by the filter has its
\* key in the list from an earlier page.
C2_CrossPageDedup ==
  /\ \A i, j \in 1..Len(all) :
        Key(all[i]) = Key(all[j]) => acceptedOn[i] = acceptedOn[j]
  /\ \A k \in 1..Len(discarded) :
        \E i \in 1..Len(all) :
          /\ Key(all[i]) = Key(discarded[k].doc)
          /\ acceptedOn[i] < discarded[k].page

\* C2 witness: the second page returned a company accepted on the first page,
\* under other field values, and the list still has one entry for it.
C2_Witness ==
  /\ pc = "done"
  /\ Len(all) = 1
  /\ Len(discarded) = 1
  /\ discarded[1].page = 2
  /\ discarded[1].doc.url # all[1].url

\* C3: every normalized record has as many manu_lats and manu_lngs as it has
\* manufacturing_locations.
C3_ManuLengths ==
  \A d \in Records :
    /\ Len(d.manu_lats) = Len(d.manufacturing_locations)
    /\ Len(d.manu_lngs) = Len(d.manufacturing_locations)

\* C3 witness: an accepted record with two manufacturing locations of which
\* one lookup found the place and the other did not.
C3_Witness ==
  \E i \in 1..Len(all) :
    /\ Len(all[i].manufacturing_locations) = 2
    /\ all[i].manu_lats[1] # all[i].manu_lats[2]

\* the pages the loop may still request, then the stage within the page, then
\* the fragments of the page still to visit
Rank ==
  << CASE pc = "idle" -> MaxImports + 1
       [] pc \in {"validate", "done"} -> 0
       [] OTHER -> maxImports + 1 - page,
     CASE pc \in {"idle", "request"} -> 2
       [] pc \in {"normalize", "validate"} -> 1
       [] OTHER -> 0,
     pending >>

\* the lexicographic order on triples of naturals
LexLess(a, b) ==
  \/ a[1] < b[1]
  \/ a[1] = b[1] /\ a[2] < b[2]
  \/ a[1] = b[1] /\ a[2] = b[2] /\ a[3] < b[3]

\* C4: the page loop issues at most maxImports completion calls, and it
\* terminates: every step of the invocation decreases a rank of naturals, of
\* which the first component is the number of pages left.
C4_BoundedCallsAndTermination ==
  /\ [](calls <= maxImports /\ \A k \in 1..3 : Rank[k] >= 0)
  /\ [][LexLess(Rank', Rank)]_vars

\* C4 witness: a finished invocation that used all of its maxImports calls,
\* one of them a failed call.
C4_Witness ==
  /\ pc = "done"
  /\ maxImports = MaxReq
  /\ calls = maxImports
  /\ page = maxImports + 1
  /\ Len(all) < maxImports

\* C5 (as claimed): every record passed to the upsert is a member of the
\* accumulated list the invocation returns.
C5_OnlyNovelPersisted ==
  pc = "done" =>
    \A k \in 1..Len(upserts) :
      \E i \in 1..Len(all) : all[i] = upserts[k].doc

\* C6 (as claimed): the container holds at most one document per
\* (company_name, normalized_domain).
C6_OneDocumentPerKey ==
  \A d1, d2 \in Store : Key(d1) = Key(d2) => d1 = d2

\* C7 (as claimed): when the final validation fails and run answers 500, no
\* record of the invocation is in the container.
C7_NothingPersistedOn500 ==
  (pc = "done" /\ Live /\ res.status = 500) => Store = {}

\* C8: final validation is all or nothing: a list with a record the company
\* schema rejects is answered 500 with no records, any other list is answered
\* 200 with every accumulated record.
C8_AllOrNothing ==
  (pc = "done" /\ Live) =>
    IF \E i \in 1..Len(all) : ~companySchema(all[i])
    THEN res.status = 500 /\ res.companies = <<>> /\ res.error # ""
    ELSE /\ res.status = 200
         /\ Len(res.companies) = Len(all)
         /\ \A i \in 1..Len(all) : res.companies[i] = Parsed(all[i])

\* C8 witness: a 500 answer for a list of two records of which one is valid.
C8_Witness ==
  /\ pc = "done"
  /\ Live
  /\ res.status = 500
  /\ Len(all) = 2
  /\ \E i \in 1..2 : companySchema(all[i])

\* v is an integer between lo and hi
IntegerIn(v, lo, hi) ==
  /\ IsNumber(v)
  /\ v.num % v.den = 0
  /\ lo * v.den <= v.num
  /\ v.num <= hi * v.den

\* what the 400 path leaves untouched
NothingCalled == calls = 0 /\ geoCalls = 0 /\ upserts = <<>>

\* C9 (as claimed): a POST whose maxImports, or whose limit when maxImports is
\* absent, is not an integer in [1, 50] is answered 400 with nothing called.
C9_BadMaxImportsIs400 ==
  LET m == IF req.body.maxImports # U THEN req.body.maxImports
           ELSE req.body.limit
  IN  (req.method = "POST" /\ m # U /\ ~IntegerIn(m, MinImports, MaxImports))
        => (pc = "done" /\ res.status = 400 /\ NothingCalled)

\* C9 (amended): the same, where limit stands for maxImports only when it is
\* a number; a limit of another type is ignored.
C9_BadNumericMaxImportsIs400 ==
  LET m == IF req.body.maxImports # U THEN req.body.maxImports
           ELSE IF IsNumber(req.body.limit) THEN req.body.limit
           ELSE U
  IN  (req.method = "POST" /\ m # U /\ ~IntegerIn(m, MinImports, MaxImports))
        => (pc = "done" /\ res.status = 400 /\ NothingCalled)

\* C9 witness: a 400 answer for a body with limit 0 and no maxImports.
C9_Witness ==
  /\ pc = "done"
  /\ res.status = 400
  /\ req.body.maxImports = U
  /\ req.body.limit = N(0)
  /\ NothingCalled

\* C10: the status of a live 200 response is "complete" exactly when the
\* number of accepted records reached maxImports, and the exhaustive status
\* otherwise.
C10_StatusFlag ==
  (pc = "done" /\ Live /\ res.status = 200) =>
    /\ res.flag = Complete <=> Len(all) >= maxImports
    /\ res.flag # Complete => res.flag = Exhaustive

\* C10 witness: a complete response with exactly maxImports records, accepted
\* on two pages.
C10_Witness ==
  /\ pc = "done"
  /\ Live
  /\ res.status = 200
  /\ res.flag = Complete
  /\ Len(all) = maxImports
  /\ acceptedOn = <<1, 2>>

\* the indices of the entries of all accepted on a page before p
AcceptedBeforeIdx(p) ==
  SelectSeq([i \in 1..Len(all) |-> i], LAMBDA i : acceptedOn[i] < p)

\* the company names of the records accepted on pages before p
AcceptedBefore(p) ==
  [k \in 1..Len(AcceptedBeforeIdx(p)) |->
     all[AcceptedBeforeIdx(p)[k]].company_name]

\* C11 (as claimed): the prompt of every completion call lists as exclusions
\* exactly the company names of the records accepted on earlier pages.
C11_PromptListsAccepted ==
  \A k \in 1..Len(callLog) :
    callLog[k].prompt.excluded = AcceptedBefore(callLog[k].page)

\* C12: a failed completion call of page p leaves the accumulated list as it
\* was and advances the page counter to p + 1; the loop then issues the next
\* call when p + 1 <= maxImports and leaves otherwise; a 500 answer of a live
\* request comes from a record the final validation rejects, never from a
\* failed call.
C12_FailedCallSkipsPage ==
  /\ \A k \in 1..Len(callLog) :
       callLog[k].answer = "error" =>
         IF k < Len(callLog)
         THEN /\ callLog[k + 1].page = callLog[k].page + 1
              /\ callLog[k + 1].accepted = callLog[k].accepted
         ELSE /\ page = callLog[k].page + 1
              /\ Len(all) = callLog[k].accepted
              /\ IF page <= maxImports THEN pc = "request"
                 ELSE pc \in {"validate", "done"}
  /\ pc = "request" => LoopCond(page, all, maxImports)
  /\ (pc = "done" /\ Live /\ res.status = 500)
       => \E i \in 1..Len(all) : ~companySchema(all[i])

\* C12 witness: the call of page 1 failed, the call of page 2 returned a
\* company, and the request is answered 200 with it.
C12_Witness ==
  /\ pc = "done"
  /\ Len(callLog) = 2
  /\ callLog[1].answer = "error"
  /\ callLog[2].answer = "companies"
  /\ callLog[2].page = 2
  /\ res.status = 200
  /\ Len(res.companies) = 1

\* C13: a completion call from whose text no record is recovered is the last
\* call of the invocation: the loop is left with the page counter and the
\* accumulated list as they were, and the answer is the one final validation
\* gives for that list, 200 with every accumulated record when they are valid.
C13_NoRecordsStopsLoop ==
  \A k \in 1..Len(callLog) :
    callLog[k].answer = "none" =>
      /\ k = Len(callLog)
      /\ pc \in {"validate", "done"}
      /\ page = callLog[k].page
      /\ Len(all) = callLog[k].accepted
      /\ (pc = "done" /\ schema(all)) =>
           /\ res.status = 200
           /\ res.companies = [i \in 1..Len(all) |-> Parsed(all[i])]

\* C13 witness: page 1 gave a record, page 2 gave none, and the request is
\* answered 200 with the record of page 1.
C13_Witness ==
  /\ pc = "done"
  /\ Len(callLog) = 2
  /\ callLog[2].answer = "none"
  /\ callLog[2].accepted = 1
  /\ res.status = 200
  /\ Len(res.companies) = 1

\* C14: a page that adds no novel record is the last page: no completion call
\* follows it and the page counter stays.
C14_NoNovelStopsLoop ==
  \A k \in 1..Len(callLog) :
    callLog[k].novel = 0 =>
      /\ k = Len(callLog)
      /\ pc \in {"validate", "done"}
      /\ page = callLog[k].page

\* C14 witness: the loop ended on a page without novel records although the
\* page counter and the accepted count are both below maxImports.
C14_Witness ==
  /\ pc = "done"
  /\ Live
  /\ callLog # <<>>
  /\ callLog[Len(callLog)].novel = 0
  /\ visited > 0
  /\ page < maxImports
  /\ Len(all) < maxImports

\* the fragments of page p that reached clean.push(doc)
PushedOn(p) ==
  Cardinality({v \in 1..Len(visits) :
                 visits[v].page = p /\ visits[v].kind = "pushed"})

\* the records of page p: in clean while the page is normalized, then
\* accepted or dropped by the filter
DocsOf(p) ==
  Cardinality({i \in 1..Len(all) : acceptedOn[i] = p})
  + Cardinality({k \in 1..Len(discarded) : discarded[k].page = p})
  + (IF pc = "normalize" /\ p = page THEN Len(clean) ELSE 0)

\* C15: an exception in the normalization of a fragment costs that fragment
\* alone: every fragment of the page is visited, every fragment that raises no
\* exception has its record in clean and then before the filter, and the page
\* of a fragment that raised is an answered call whose novel records are all
\* accepted.
C15_ShapeErrorDropsOneFragment ==
  /\ visited + pending = fragments
  /\ \A p \in 1..page : PushedOn(p) = DocsOf(p)
  /\ \A v \in 1..Len(visits) :
       visits[v].kind = "raised" =>
         \E k \in 1..Len(callLog) :
           /\ callLog[k].page = visits[v].page
           /\ callLog[k].answer = "companies"
           /\ callLog[k].novel >= 0 =>
                callLog[k].novel
                  = Cardinality({i \in 1..Len(all) :
                                   acceptedOn[i] = visits[v].page})

\* C15 witness: the first fragment of a page raised, the second was
\* normalized and accepted, and the request is answered 200 with it.
C15_Witness ==
  /\ pc = "done"
  /\ Len(visits) = 2
  /\ visits[1].kind = "raised"
  /\ visits[2].kind = "pushed"
  /\ visits[1].page = visits[2].page
  /\ Len(all) = 1
  /\ all[1].id = visits[2].id
  /\ res.status = 200

\* the records that reached clean: still there, accepted, or dropped by the filter
Kept ==
  {all[i] : i \in 1..Len(all)} \cup {clean[i] : i \in 1..Len(clean)}
  \cup {discarded[i].doc : i \in 1..Len(discarded)}

\* C16: a record whose upsert failed stays among the records of its page; as
\* long as the container can be built every record that reaches clean is
\* passed to the upsert, whatever happened to the records before it; when the
\* container cannot be built no upsert is made and the records are kept all
\* the same; and a live request whose accumulated records are valid is
\* answered 200 with all of them.
C16_UpsertFailureNonFatal ==
  /\ \A k \in 1..Len(upserts) : ~upserts[k].ok => upserts[k].doc \in Kept
  /\ env.cosmos => \A d \in Kept : \E k \in 1..Len(upserts) : upserts[k].doc = d
  /\ ~env.cosmos => (upserts = <<>> /\ cosmosContainer = "null")
  /\ \A p \in 1..page : PushedOn(p) = DocsOf(p)
  /\ (pc = "done" /\ Live /\ schema(all)) =>
       (res.status = 200 /\ Len(res.companies) = Len(all))

\* C16 witness: the upsert of the first record of a page failed, the second
\* record of the page was upserted, and the request is answered 200 with both.
C16_Witness ==
  /\ pc = "done"
  /\ Len(upserts) = 2
  /\ ~upserts[1].ok
  /\ upserts[2].ok
  /\ res.status = 200
  /\ Len(res.companies) = 2
  /\ acceptedOn = <<1, 1>>
  /\ all[1] = upserts[1].doc

\* C17: geocodeLocation returns a location on every input and every answer of
\* the provider; it returns {lat: 0, lng: 0} without a key, for an empty
\* location, when the lookup fails and when the provider finds nothing; it
\* makes no outbound call without a key or for an empty location.
C17_GeocodeZeroCases ==
  output.fn = "geocodeLocation" =>
    /\ output.value \in {NoLocation, FoundLocation}
    /\ (~input.key \/ ~Truthy(input.location)
        \/ input.outcome \in {"error", "none"})
         => output.value = NoLocation
    /\ (~input.key \/ ~Truthy(input.location)) => ~output.called

\* C17 witness: a lookup for a location, with a key, that failed.
C17_Witness ==
  /\ output.fn = "geocodeLocation"
  /\ input.key
  /\ input.location = Austin
  /\ input.outcome = "error"
  /\ output.called
  /\ output.value = NoLocation

\* the lookups in flight after the first n events of geoTrace
InFlight(n) ==
  Cardinality({a \in 1..n : geoTrace[a].ev = "send"})
  - Cardinality({a \in 1..n : geoTrace[a].ev = "recv"})

\* the record of the v-th visited object, when it reached clean
DocOfVisit(v) == CHOOSE d \in Records : d.id = visits[v].id

\* C18: at most one geocoding lookup is in flight at any time, every lookup is
\* answered before the next is sent, the lookups follow the order of the
\* fragments and, within a fragment, the headquarters comes first and the
\* manufacturing locations follow in list order, one lookup per entry that is
\* looked up.
C18_GeocodingSequential ==
  /\ \A n \in 0..Len(geoTrace) : InFlight(n) \in {0, 1}
  /\ \A a \in 1..Len(geoTrace) :
       geoTrace[a].ev = "send" =>
         /\ a < Len(geoTrace)
         /\ geoTrace[a + 1] = [geoTrace[a] EXCEPT !.ev = "recv"]
  /\ \A a, b \in 1..Len(geoTrace) :
       (a < b /\ geoTrace[a].ev = "send" /\ geoTrace[b].ev = "send") =>
         \/ geoTrace[a].visit < geoTrace[b].visit
         \/ /\ geoTrace[a].visit = geoTrace[b].visit
            /\ geoTrace[a].slot < geoTrace[b].slot
  /\ \A v \in 1..Len(visits) :
       visits[v].kind = "pushed" =>
         {geoTrace[a].slot : a \in {b \in 1..Len(geoTrace) :
                                      /\ geoTrace[b].ev = "send"
                                      /\ geoTrace[b].visit = v
                                      /\ geoTrace[b].slot > 0}}
           = {i \in 1..Len(DocOfVisit(v).manufacturing_locations) :
                GeoCalls(env.geoKey, DocOfVisit(v).manufacturing_locations[i])}
  /\ geoCalls = Cardinality({a \in 1..Len(geoTrace) : geoTrace[a].ev = "send"})

\* C18 witness: a fragment with a headquarters and two manufacturing
\* locations, all three looked up.
C18_Witness ==
  /\ Len(geoTrace) = 6
  /\ geoTrace[1] = [ev |-> "send", visit |-> 1, slot |-> 0]
  /\ geoTrace[6] = [ev |-> "recv", visit |-> 1, slot |-> 2]
  /\ geoCalls = 3

\* C19: an OPTIONS request is answered 204 and a request of a method other
\* than OPTIONS and POST is answered 405, both with the Origin header of the
\* request ("*" without one) as Access-Control-Allow-Origin, whatever the body
\* is: the body is not parsed and nothing is called.
C19_MethodDispatch ==
  (req.method \notin {"", "POST"}) =>
    /\ pc = "done"
    /\ res.status = IF req.method = "OPTIONS" THEN 204 ELSE 405
    /\ res.allowOrigin = IF req.origin = U THEN S(<<"*">>) ELSE req.origin
    /\ maxImports = 0
    /\ callLog = <<>>
    /\ NothingCalled

\* C19 witness: an OPTIONS request with an Origin header and a body the
\* request schema rejects, answered 204.
C19_Witness ==
  /\ req.method = "OPTIONS"
  /\ req.origin # U
  /\ ~requestSchema(BackCompat(req.body))
  /\ res.status = 204
  /\ res.allowOrigin = req.origin

\* C20: whatever timeout_ms and timeoutMs the body carries and whatever
\* XAI_TIMEOUT_MS is set to, the timeout of the completion call is a number
\* between 10000 and 3600000.
C20_TimeoutInRange ==
  (output.fn = "timeout" /\ output.status = 0) =>
    /\ IsFinite(output.timeout)
    /\ Leq(N(MIN), output.timeout)
    /\ Leq(output.timeout, N(MAX))

\* C20 witness: no timeout in the body and an environment default of two
\* hours: the call is made with the upper limit.
C20_Witness ==
  /\ output.fn = "timeout"
  /\ input.timeout_ms = U
  /\ input.timeoutMs = U
  /\ input.envValue = S(<<"7200000">>)
  /\ output.timeout = N(MAX)

\* C21 (as claimed): with no timeout in the body and XAI_TIMEOUT_MS not set,
\* the timeout of the completion call is 300000 ms.
C21_DefaultIsFiveMinutes ==
  (/\ output.fn = "timeout"
   /\ input.timeout_ms = U
   /\ input.timeoutMs = U
   /\ input.envValue = U)
    => output.timeout = N(DEFAULT)

\* C21 (amended): with no timeout in the body and XAI_TIMEOUT_MS not set, the
\* timeout of the completion call is the fallback 600000 ms; it is 300000 ms
\* when the body has no timeout and XAI_TIMEOUT_MS is set to a text that is
\* not a finite number.
C21_DefaultIsFallback ==
  (/\ output.fn = "timeout"
   /\ input.timeout_ms = U
   /\ input.timeoutMs = U)
    => /\ input.envValue = U => output.timeout = N(FallbackTimeout)
       /\ (input.envValue # U /\ ~IsFinite(Number(input.envValue)))
            => output.timeout = N(DEFAULT)

\* C21 witness: a body without timeout under an environment without
\* XAI_TIMEOUT_MS, answered with a timeout of ten minutes.
C21_Witness ==
  /\ output.fn = "timeout"
  /\ input.timeout_ms = U
  /\ input.timeoutMs = U
  /\ input.envValue = U
  /\ output.status = 0
  /\ output.timeout = N(600000)


\* C22: for a text that wraps a valid JSON array in a fenced code block, with
\* or without prose around it, trimToArrayJson returns the record list that
\* parsing the inner content of the fence gives
C22_FencedArrayExtracted ==
  (output.fn = "trimToArrayJson" /\ input.fenced)
    => /\ ~output.value.null
       /\ output.value.companies = JSONArray(input.inner).list

\* C23 as stated: an amazon.com URL without a tag parameter is returned with
\* tag=tabarnam00-20 added, and a URL whose host is not an amazon.* host is
\* returned as it was given
C23_TaggedOrUnmodified ==
  (/\ output.fn = "ensureAffiliateTag"
   /\ IsString(input.url)
   /\ ParseUrl(input.url.s).ok)
    => LET u == ParseUrl(input.url.s)
       IN  /\ (u.host = "amazon.com" /\ \A i \in 1..Len(u.query) : ~IsTag(u.query[i]))
                => output.value
                     = S(Serialize([u EXCEPT !.query = Append(@, TagParam)]))
           /\ u.host # "amazon.com" => output.value = input.url

\* C23: an amazon.com URL without a tag parameter is returned with
\* tag=tabarnam00-20 added; a URL whose host name does not contain "amazon."
\* gets no tag and is returned as URL.toString() writes it, with the host in
\* lower case and "/" for an empty path, which is the input only when the
\* input is written that way
C23_TaggedOrNormalized ==
  (/\ output.fn = "ensureAffiliateTag"
   /\ IsString(input.url)
   /\ ParseUrl(input.url.s).ok)
    => LET u == ParseUrl(input.url.s)
       IN  /\ (u.host = "amazon.com" /\ \A i \in 1..Len(u.query) : ~IsTag(u.query[i]))
                => output.value
                     = S(Serialize([u EXCEPT !.query = Append(@, TagParam)]))
           /\ ~ContainsAmazonDot(u.host)
                => /\ output.value = S(Serialize(u))
                   /\ TagParam \notin {output.value.s[i] : i \in 1..Len(output.value.s)}
                   /\ (output.value = input.url) <=> (input.url.s = Serialize(u))

C23_Witness ==
  /\ output.fn = "ensureAffiliateTag"
  /\ input.url = S(<<"https://", "acme.com">>)
  /\ output.value = S(<<"https://", "acme.com", "/">>)


\* C24: the document-store client is established lazily and at most once in
\* an invocation: no construction is attempted before a record reaches the
\* persistence step, and after the first attempt, successful or failed, no
\* later record of the invocation triggers another construction
C24_InitAtMostOnce ==
  /\ nextId = 1 => inits = 0
  /\ inits <= 1

\* C25: the list callXAI returns never holds more than maxImports records,
\* however many fragments one page returns
C25_AtMostMaxImports ==
  (pc \in {"validate", "done"} /\ Live) => Len(all) <= maxImports

\* C26: an invocation of run that has ended has assigned context.res exactly
\* once, with a status among 200, 204, 400, 405 and 500, and one that has not
\* ended has assigned none: for every method, body and environment and every
\* outcome of the completion, geocoding and document-store calls, an
\* exception raised on the way is answered by the catch of run
C26_ExactlyOneResponse ==
  /\ responses = (IF pc = "done" THEN 1 ELSE 0)
  /\ (res # NoRes) <=> (pc = "done")
  /\ pc = "done" => res.status \in {200, 204, 400, 405, 500}

\* C26 witness: callXAI returned a list the final validation rejects, and the
\* exception is answered 500.
C26_Witness ==
  /\ pc = "done"
  /\ Live
  /\ Len(all) > 0
  /\ upserts # <<>>
  /\ responses = 1
  /\ res.status = 500

\* the values of XAI_STUB that turn stub mode on
StubOn == env.stub \in {S(<<"1">>), S(<<SP, "TRUE", SP>>)}

\* the response to a request that is not a valid POST
Dispatched ==
  IF req.method = "OPTIONS"
  THEN Res(204, <<>>, "", "", AllowOrigin(req.origin))
  ELSE IF req.method # "POST"
  THEN Res(405, <<>>, "", "Method Not Allowed", AllowOrigin(req.origin))
  ELSE Res(400, <<>>, "", "Invalid request format", AllowOrigin(req.origin))

\* C27: in stub mode a valid POST is answered 200 with an empty companies
\* list and the status "stub", and no completion call, geocoding call or
\* upsert is made, with or without XAI_API_KEY; OPTIONS, the other methods and
\* a POST the request schema rejects are answered 204, 405 and 400, in stub
\* mode as in live mode
C27_StubMode ==
  LET valid == req.method = "POST" /\ requestSchema(BackCompat(req.body))
  IN  /\ StubOn
           => /\ pc = "done"
              /\ NothingCalled
              /\ callLog = <<>>
              /\ inits = 0
              /\ res = IF valid
                       THEN Res(200, <<>>, "stub", "", AllowOrigin(req.origin))
                       ELSE Dispatched
      /\ (pc = "done" /\ ~StubOn /\ ~valid) => res = Dispatched

\* C27 witness: XAI_STUB is " TRUE ", XAI_API_KEY is not set, and a valid POST
\* is answered 200 "stub".
C27_Witness ==
  /\ pc = "done"
  /\ env.stub = S(<<SP, "TRUE", SP>>)
  /\ ~env.apiKey
  /\ req.method = "POST"
  /\ maxImports = 1
  /\ res.status = 200
  /\ res.flag = "stub"
  /\ calls = 0

====
